---------------------------- MODULE Spec2Model ----------------------------
(***************************************************************************)
(* Model of lib/model.js: delta computation ($__delta), array divergence   *)
(* detection (checkDivergentArray), versioning ($__version, increment) and *)
(* population reassembly (assignVals, assignRawDocsToIdStructure).         *)
(*                                                                         *)
(* JavaScript strings that the code inspects (dotted paths, populate       *)
(* `select` strings) are tuples of one-character strings, so that          *)
(* path.split('.') and the /\s?-_id\s?/ test are computed.  JavaScript     *)
(* objects are functions from a finite set of keys.                        *)
(***************************************************************************)
EXTENDS Integers, Sequences, FiniteSets, TLC

VARIABLES
  version,          \* this.$__.version (undefined is 0)
  versionKey,       \* this.schema.options.versionKey
  versionSelected,  \* this.isSelected(versionKey)
  versionValue,     \* this.getValue(versionKey)
  selected,         \* this.$__.selected
  populated,        \* this.$__.populated, read by this.populated(path, true)
  dirty,            \* this.$__dirty()
  out,              \* what the last call returned (or threw)
  heap,             \* the arrays of the rawIds structure; rawIds is heap[0]
  heap0,            \* the arrays as they were when assignVals was called
  resultDocs,       \* o.rawDocs: String(_id) -> fetched document
  resultOrder,      \* o.rawOrder: String(_id) -> rank in the query result
  options,          \* o.options
  subdocs,          \* the fetched documents: lean or not, state of their _id
  written,          \* what utils.setValue wrote for docs[i], in order
  pc,               \* "idle", "fetched" (population query done), "assigned",
                    \* "value" (a value to filter), "filtered"
  models,           \* Mongoose: this.models
  modelSchemas,     \* Mongoose: this.modelSchemas
  created           \* number of Schema and model objects created so far

vars == <<version, versionKey, versionSelected, versionValue, selected,
          populated, dirty, out, heap, heap0, resultDocs, resultOrder,
          options, subdocs, written, pc, models, modelSchemas, created>>

regVars == <<models, modelSchemas, created>>

popVars == <<heap, heap0, resultDocs, resultOrder, options, subdocs, written,
             pc>>

docVars == <<version, versionKey, versionSelected, versionValue, selected,
             populated, dirty>>

-----------------------------------------------------------------------------
(* Bounds of the model *)

MaxVersionValue == 1
MaxDirty == 2
MaxLimit == 1
MaxSkip == 1
MaxInc == 2
MaxLen == 2
MaxRank == 2
MaxCreated == 4

(* lib/model.js:22-24 *)
VERSION_WHERE == 1
VERSION_INC == 2
VERSION_ALL == 3

-----------------------------------------------------------------------------
(* JavaScript objects with number values *)

EmptyObj == [k \in {} |-> 0]

Put(o, k, v) == [x \in (DOMAIN o) \cup {k} |-> IF x = k THEN v ELSE o[x]]

Has(o, k) == k \in DOMAIN o

NoSub == [has |-> FALSE, m |-> EmptyObj]

EmptyDelta == [top |-> EmptyObj, inc |-> NoSub, set |-> NoSub]

-----------------------------------------------------------------------------
(* Strings *)

Whitespace == {" "}

\* the characters of s from index i (1-based) on start with pre
StartsAt(s, i, pre) ==
  /\ i + Len(pre) - 1 <= Len(s)
  /\ \A k \in 1..Len(pre) : s[i + k - 1] = pre[k]

MinusId == <<"-", "_", "i", "d">>

\* /\s?-_id\s?/.test(s): at some position, an optional whitespace character,
\* then "-_id" (the trailing optional whitespace always matches)
RegexMinusIdTest(s) ==
  \E i \in 1..Len(s) :
     \/ StartsAt(s, i, MinusId)
     \/ s[i] \in Whitespace /\ StartsAt(s, i + 1, MinusId)

\* the index of the first "." of path, or Len(path) + 1
FirstDot(path) ==
  IF \E i \in 1..Len(path) : path[i] = "."
  THEN CHOOSE i \in 1..Len(path) :
         path[i] = "." /\ \A j \in 1..(i - 1) : path[j] # "."
  ELSE Len(path) + 1

\* path.split('.')[0]
SplitFirst(path) == SubSeq(path, 1, FirstDot(path) - 1)


-----------------------------------------------------------------------------
(* Populate options, projections, dirty values *)

NoOptions == [has |-> FALSE, hasLimit |-> FALSE, limit |-> 0,
              hasSkip |-> FALSE, skip |-> 0]

\* pop.options.options: absent, or an object that may own `limit` and `skip`
OptionsSet ==
  {NoOptions} \cup
  { [has |-> TRUE, hasLimit |-> hl, limit |-> l, hasSkip |-> hs, skip |-> s] :
      hl \in BOOLEAN, l \in 0..MaxLimit, hs \in BOOLEAN, s \in 0..MaxSkip }

NoSelect == [kind |-> "absent", s |-> <<>>, id |-> "absent"]

\* pop.options.select: absent, a string, or an object whose _id is absent,
\* 0 or 1
SelectStrings ==
  { <<>>,
    <<"-", "_", "i", "d">>,
    <<"a", " ", "-", "_", "i", "d">>,
    <<"_", "i", "d">>,
    <<"-", "a">> }

SelectSet ==
  {NoSelect} \cup
  { [kind |-> "string", s |-> s, id |-> "absent"] : s \in SelectStrings } \cup
  { [kind |-> "object", s |-> <<>>, id |-> i] : i \in {"absent", "0", "1"} }

NoPop == [is |-> FALSE, match |-> FALSE, options |-> NoOptions, select |-> NoSelect]

\* what doc.populated(path, true) returns for a populated path
PopSet ==
  { [is |-> TRUE, match |-> m, options |-> o, select |-> s] :
      m \in BOOLEAN, o \in OptionsSet, s \in SelectSet }

Paths == { <<"t">>, <<"t", ".", "0">>, <<"c">>, <<"c", ".", "x">> }

Tops == { <<"t">>, <<"c">> }

NoSelected == [has |-> FALSE, proj |-> [k \in {} |-> "include"]]

\* doc.$__.selected: undefined, or the projection the document was loaded with
SelectedSet ==
  {NoSelected} \cup
  UNION { { [has |-> TRUE, proj |-> f] : f \in [D -> {"include", "elemMatch"}] } :
            D \in SUBSET Tops }

AtomicOps == {"$set", "$pop", "$push"}

\* a dirty value: its type and, for a type that queues atomics, their names
ValueSet ==
  { [kind |-> k, atomics |-> {}] :
      k \in {"undefined", "null", "MongooseBuffer", "plain"} } \cup
  { [kind |-> k, atomics |-> a] :
      k \in {"MongooseArray", "custom"}, a \in SUBSET AtomicOps }

-----------------------------------------------------------------------------
(* lib/model.js:135-172 *)

Truthy(select) ==
  \/ select.kind = "object"
  \/ select.kind = "string" /\ Len(select.s) > 0

\* lib/model.js:159-164
PopulateCheckMutSkipZero(pop) ==
  \/ pop.match
  \/ pop.options.has /\ pop.options.hasLimit
  \/ pop.options.has /\ pop.options.hasSkip
  \/ /\ Truthy(pop.select)
     /\ \/ pop.select.kind = "object" /\ pop.select.id = "0"
        \/ pop.select.kind = "string" /\ RegexMinusIdTest(pop.select.s)

PopulateCheck(pop) ==
  \/ pop.match
  \/ pop.options.has /\ pop.options.hasLimit
  \/ pop.options.has /\ pop.options.hasSkip /\ pop.options.skip # 0
  \/ /\ Truthy(pop.select)
     /\ \/ pop.select.kind = "object" /\ pop.select.id = "0"
        \/ pop.select.kind = "string" /\ RegexMinusIdTest(pop.select.s)

NotFlagged == [flag |-> FALSE, path |-> <<>>]

\* lib/model.js:139-146
ElemMatchTop(doc, path) ==
  LET top == SplitFirst(path) IN
  IF /\ ~doc.populated[path].is
     /\ doc.selected.has
     /\ top \in DOMAIN doc.selected.proj
     /\ doc.selected.proj[top] = "elemMatch"
  THEN [flag |-> TRUE, path |-> top]
  ELSE NotFlagged

checkDivergentArray(doc, path, array) ==
  LET pop == doc.populated[path]
      em  == ElemMatchTop(doc, path)
  IN IF em.flag THEN em
     ELSE IF ~(pop.is /\ array.kind = "MongooseArray") THEN NotFlagged
     ELSE IF /\ PopulateCheck(pop)
             /\ \/ array.atomics = {}
                \/ "$set" \in array.atomics
                \/ "$pop" \in array.atomics
          THEN [flag |-> TRUE, path |-> path]
          ELSE NotFlagged

-----------------------------------------------------------------------------
(* lib/model.js:182-210 *)

Bit(n, b) == (n \div b) % 2

\* a & b for a, b in 0..3
BitAnd(a, b) == Bit(a, 1) * Bit(b, 1) + 2 * (Bit(a, 2) * Bit(b, 2))

NoVersionKey == "false"

\* where is TRUE-sentinel or an object; the result is the arguments and the
\* document's version value after the call
Model__versionMutAccumulate(doc, where, delta) ==
  LET key == doc.versionKey IN
  IF where.sentinel
  THEN [where |-> where,
        delta |-> IF key # NoVersionKey
                  THEN [delta EXCEPT !.top = Put(@, key, 0)] ELSE delta,
        versionValue |-> IF key # NoVersionKey THEN 0 ELSE doc.versionValue]
  ELSE IF ~doc.versionSelected
  THEN [where |-> where, delta |-> delta, versionValue |-> doc.versionValue]
  ELSE
    [where |->
       IF VERSION_WHERE = BitAnd(VERSION_WHERE, doc.version)
       THEN [where EXCEPT !.o = Put(@, key, doc.versionValue)]
       ELSE where,
     delta |->
       IF VERSION_INC = BitAnd(VERSION_INC, doc.version)
       THEN LET m == IF delta.inc.has THEN delta.inc.m ELSE EmptyObj
            IN [delta EXCEPT !.inc =
                  [has |-> TRUE,
                   m |-> Put(m, key, (IF Has(m, key) THEN m[key] ELSE 0) + 1)]]
       ELSE delta,
     versionValue |-> doc.versionValue]

Model__versionMutNoSelectCheck(doc, where, delta) ==
  LET key == doc.versionKey IN
  IF where.sentinel
  THEN [where |-> where,
        delta |-> IF key # NoVersionKey
                  THEN [delta EXCEPT !.top = Put(@, key, 0)] ELSE delta,
        versionValue |-> IF key # NoVersionKey THEN 0 ELSE doc.versionValue]
  ELSE
    [where |->
       IF VERSION_WHERE = BitAnd(VERSION_WHERE, doc.version)
       THEN [where EXCEPT !.o = Put(@, key, doc.versionValue)]
       ELSE where,
     delta |->
       IF VERSION_INC = BitAnd(VERSION_INC, doc.version)
       THEN [delta EXCEPT !.inc =
               [has |-> TRUE,
                m |-> Put(IF @.has THEN @.m ELSE EmptyObj, key, 1)]]
       ELSE delta,
     versionValue |-> doc.versionValue]

Model__versionMutSetOperand(doc, where, delta) ==
  LET key == doc.versionKey IN
  IF where.sentinel
  THEN [where |-> where,
        delta |-> IF key # NoVersionKey
                  THEN [delta EXCEPT !.set =
                          [has |-> TRUE,
                           m |-> Put(IF @.has THEN @.m ELSE EmptyObj, key, 0)]]
                  ELSE delta,
        versionValue |-> IF key # NoVersionKey THEN 0 ELSE doc.versionValue]
  ELSE Model__versionMutAccumulate(doc, where, delta)

Model__version(doc, where, delta) ==
  LET key == doc.versionKey IN
  IF where.sentinel
  THEN \* this is an insert: this.setValue(key, delta[key] = 0)
       [where |-> where,
        delta |-> IF key # NoVersionKey
                  THEN [delta EXCEPT !.top = Put(@, key, 0)] ELSE delta,
        versionValue |-> IF key # NoVersionKey THEN 0 ELSE doc.versionValue]
  ELSE IF ~doc.versionSelected
  THEN [where |-> where, delta |-> delta, versionValue |-> doc.versionValue]
  ELSE
    [where |->
       IF VERSION_WHERE = BitAnd(VERSION_WHERE, doc.version)
       THEN [where EXCEPT !.o = Put(@, key, doc.versionValue)]
       ELSE where,
     delta |->
       IF VERSION_INC = BitAnd(VERSION_INC, doc.version)
       THEN [delta EXCEPT !.inc =
               [has |-> TRUE,
                m |-> Put(IF @.has THEN @.m ELSE EmptyObj, key, 1)]]
       ELSE delta,
     versionValue |-> doc.versionValue]

-----------------------------------------------------------------------------
(* lib/model.js:68-123 *)

\* the document as the functions of lib/model.js read it
Doc == [version |-> version, versionKey |-> versionKey,
        versionSelected |-> versionSelected, versionValue |-> versionValue,
        selected |-> selected, populated |-> populated, dirty |-> dirty]

NoWhere == [sentinel |-> FALSE, o |-> EmptyObj]

InsertSentinel == [sentinel |-> TRUE, o |-> EmptyObj]

\* lib/model.js:93-111: the helper the value's branch calls.  Neither
\* `operand` nor `handleAtomics` is declared in lib/model.js or set as a
\* global, so evaluating the call throws a ReferenceError.
Callee(value) ==
  IF value.kind \in {"MongooseArray", "custom"}
  THEN "handleAtomics" ELSE "operand"

RECURSIVE DeltaLoop(_, _, _)
\* lib/model.js:80-112, from dirty[d] on; divergent is the list built so far
DeltaLoop(doc, d, divergent) ==
  IF d > Len(doc.dirty)
  THEN [thrown |-> FALSE, callee |-> "", divergent |-> divergent]
  ELSE LET data  == doc.dirty[d]
           match == checkDivergentArray(doc, data.path, data.value)
       IN IF match.flag
          THEN DeltaLoop(doc, d + 1, Append(divergent, match.path))
          ELSE IF Len(divergent) > 0
          THEN DeltaLoop(doc, d + 1, divergent)
          ELSE [thrown |-> TRUE, callee |-> Callee(data.value),
                divergent |-> divergent]

\* lib/model.js:70
NothingToDoMutNoNegation(doc) ==
  Len(doc.dirty) # 0 /\ VERSION_ALL # doc.version

NothingToDoMutAnyBit(doc) ==
  Len(doc.dirty) = 0 /\ doc.version = 0

NothingToDo(doc) ==
  Len(doc.dirty) = 0 /\ VERSION_ALL # doc.version

Model__delta(doc) ==
  IF NothingToDo(doc) THEN [kind |-> "undefined"]
  ELSE LET loop == DeltaLoop(doc, 1, <<>>) IN
       IF loop.thrown
       THEN [kind |-> "ReferenceError", callee |-> loop.callee]
       ELSE IF Len(loop.divergent) > 0
       THEN [kind |-> "DivergentArrayError", divergent |-> loop.divergent]
       ELSE LET v == IF doc.version # 0
                     THEN Model__version(doc, NoWhere, EmptyDelta)
                     ELSE [where |-> NoWhere, delta |-> EmptyDelta,
                           versionValue |-> doc.versionValue]
            IN [kind |-> "pair", where |-> v.where.o, delta |-> v.delta]

-----------------------------------------------------------------------------
(* JavaScript arrays: a length and the entries of the indices that are set  *)
(* (an index below the length that is not set is a hole)                    *)

EmptyArr == [len |-> 0, at |-> [i \in {} |-> 0]]

FromSeq(q) == [len |-> Len(q), at |-> [i \in 0..(Len(q) - 1) |-> q[i + 1]]]

\* arr.push(e)
Push(arr, e) == [len |-> arr.len + 1, at |-> Put(arr.at, arr.len, e)]

\* arr[i] = e
SetIndex(arr, i, e) ==
  [len |-> IF i + 1 > arr.len THEN i + 1 ELSE arr.len, at |-> Put(arr.at, i, e)]

\* no population in progress
PopIdle ==
  /\ heap = [a \in {0} |-> EmptyArr]
  /\ heap0 = heap
  /\ resultDocs = EmptyObj
  /\ resultOrder = EmptyObj
  /\ options = [sort |-> FALSE, excludeId |-> FALSE]
  /\ subdocs = EmptyObj
  /\ written = <<>>
  /\ pc = "idle"

\* the model names of the registry
Names == {"Actor", "system.profile"}

NoModel == [id |-> 0, schema |-> [src |-> "none", n |-> 0]]

NoSchema == [src |-> "none", n |-> 0]

\* lib/index.js:52-60: a Mongoose with no model and no schema
RegIdle ==
  /\ models = [n \in Names |-> NoModel]
  /\ modelSchemas = [n \in Names |-> NoSchema]
  /\ created = 0

-----------------------------------------------------------------------------
(* The document: mutation, increment(), $__delta() *)

DirtyPaths(d) == { d[i].path : i \in 1..Len(d) }

\* the load: projection and population of the document just constructed
LoadedSelected ==
  { NoSelected,
    [has |-> TRUE, proj |-> [k \in {<<"c">>} |-> "elemMatch"]] }

LoadedPopulated ==
  { [p \in Paths |-> NoPop],
    [p \in Paths |-> IF p = <<"t">>
                     THEN [NoPop EXCEPT !.is = TRUE,
                             !.options = [NoOptions EXCEPT !.has = TRUE, !.hasLimit = TRUE]]
                     ELSE NoPop] }

LoadedValues ==
  { [kind |-> "undefined", atomics |-> {}],
    [kind |-> "plain", atomics |-> {}],
    [kind |-> "MongooseArray", atomics |-> {}],
    [kind |-> "MongooseArray", atomics |-> {"$push"}] }

Init ==
  /\ version \in 0..VERSION_ALL
  /\ versionKey = "__v"
  /\ versionSelected \in BOOLEAN
  /\ versionValue \in 0..MaxVersionValue
  /\ selected \in LoadedSelected
  /\ populated \in LoadedPopulated
  /\ dirty = <<>>
  /\ out = [kind |-> "none"]
  /\ PopIdle
  /\ RegIdle

\* a path of the document is modified: this.$__dirty() lists it once
Set(path, value) ==
  /\ Len(dirty) < MaxDirty
  /\ path \notin DirtyPaths(dirty)
  /\ dirty' = Append(dirty, [path |-> path, value |-> value])
  /\ out' = [kind |-> "none"]
  /\ UNCHANGED <<version, versionKey, versionSelected, versionValue,
                 selected, populated>>
  /\ UNCHANGED popVars
  /\ UNCHANGED regVars

\* lib/model.js:226-229
incrementMutOrInc ==
  /\ version' = IF Bit(version, 2) = 1 THEN version ELSE version + VERSION_INC
  /\ out' = [kind |-> "increment", before |-> version]
  /\ UNCHANGED <<versionKey, versionSelected, versionValue, selected,
                 populated, dirty>>
  /\ UNCHANGED popVars
  /\ UNCHANGED regVars

increment ==
  /\ version' = VERSION_ALL
  /\ out' = [kind |-> "increment", before |-> version]
  /\ UNCHANGED <<versionKey, versionSelected, versionValue, selected,
                 populated, dirty>>
  /\ UNCHANGED popVars
  /\ UNCHANGED regVars

\* save() asks for the delta; `after` is the call that came before
Delta ==
  /\ out' = [kind |-> "delta", after |-> out.kind, ret |-> Model__delta(Doc)]
  /\ UNCHANGED docVars
  /\ UNCHANGED popVars
  /\ UNCHANGED regVars

Next ==
  \/ \E path \in Paths, value \in LoadedValues : Set(path, value)
  \/ increment
  \/ Delta

Spec == Init /\ [][Next]_vars

-----------------------------------------------------------------------------
(* checkDivergentArray on its own: every populate option, projection, path  *)
(* and new value                                                            *)

PopulatedSet ==
  { [p \in Paths |-> NoPop] } \cup
  { [p \in Paths |-> IF p = q THEN pop ELSE NoPop] : q \in Paths, pop \in PopSet }

InitDivergent ==
  /\ version = 0
  /\ versionKey = "__v"
  /\ versionSelected = TRUE
  /\ versionValue = 0
  /\ selected \in SelectedSet
  /\ populated \in PopulatedSet
  /\ dirty = <<>>
  /\ out = [kind |-> "none"]
  /\ PopIdle
  /\ RegIdle

CheckDivergent(path, array) ==
  /\ out.kind = "none"
  /\ out' = [kind |-> "check", path |-> path, array |-> array,
             ret |-> checkDivergentArray(Doc, path, array)]
  /\ UNCHANGED docVars
  /\ UNCHANGED popVars
  /\ UNCHANGED regVars

NextDivergent == \E path \in Paths, array \in ValueSet : CheckDivergent(path, array)

SpecDivergent == InitDivergent /\ [][NextDivergent]_vars

-----------------------------------------------------------------------------
(* $__version on its own: insert and update calls with any where and delta  *)

VersionKeys == {"__v", NoVersionKey}

WhereSet ==
  { [sentinel |-> FALSE, o |-> o] :
      o \in { EmptyObj, [k \in {"_id"} |-> 1], [k \in {"_id", "__v"} |-> 1] } }

IncSet ==
  { NoSub, [has |-> TRUE, m |-> EmptyObj], [has |-> TRUE, m |-> [k \in {"n"} |-> 1]] }
  \cup { [has |-> TRUE, m |-> [k \in {"__v"} |-> i]] : i \in 1..MaxInc }
  \cup { [has |-> TRUE, m |-> [k \in {"n", "__v"} |-> i]] : i \in 1..MaxInc }

DeltaSet ==
  { [top |-> t, inc |-> i, set |-> u] :
      t \in { EmptyObj, [k \in {"__v"} |-> 1], [k \in {"n"} |-> 1] },
      i \in IncSet,
      u \in { NoSub, [has |-> TRUE, m |-> [k \in {"a"} |-> 1]] } }

InitVersion ==
  /\ version \in 0..VERSION_ALL
  /\ versionKey \in VersionKeys
  /\ versionSelected \in BOOLEAN
  /\ versionValue \in 0..MaxVersionValue
  /\ selected = NoSelected
  /\ populated = [p \in Paths |-> NoPop]
  /\ dirty = <<>>
  /\ out = [kind |-> "none"]
  /\ PopIdle
  /\ RegIdle

\* this.$__version(true, obj)
VersionInsert(delta) ==
  LET r == Model__version(Doc, InsertSentinel, delta) IN
  /\ out.kind = "none"
  /\ out' = [kind |-> "version", inWhere |-> InsertSentinel, inDelta |-> delta,
             before |-> versionValue, ret |-> r]
  /\ versionValue' = r.versionValue
  /\ UNCHANGED <<version, versionKey, versionSelected, selected, populated, dirty>>
  /\ UNCHANGED popVars
  /\ UNCHANGED regVars

\* this.$__version(where, delta) of a schema that has a version key
VersionUpdate(where, delta) ==
  LET r == Model__version(Doc, where, delta) IN
  /\ out.kind = "none"
  /\ versionKey # NoVersionKey
  /\ out' = [kind |-> "version", inWhere |-> where, inDelta |-> delta,
             before |-> versionValue, ret |-> r]
  /\ versionValue' = r.versionValue
  /\ UNCHANGED <<version, versionKey, versionSelected, selected, populated, dirty>>
  /\ UNCHANGED popVars
  /\ UNCHANGED regVars

NextVersion ==
  \/ \E delta \in DeltaSet : VersionInsert(delta)
  \/ \E where \in WhereSet, delta \in DeltaSet : VersionUpdate(where, delta)

SpecVersion == InitVersion /\ [][NextVersion]_vars

-----------------------------------------------------------------------------
(* Properties of $__delta, increment() and $__version *)

Key == versionKey

\* C1 as stated: for an empty dirty list and the version state INC without
\* WHERE (version key selected), $__delta returns a pair whose
\* update.$inc[versionKey] is 1 and whose where has no version key.
C1_Original ==
  (out.kind = "delta" /\ dirty = <<>> /\ version = VERSION_INC /\ versionSelected)
    => /\ out.ret.kind = "pair"
       /\ out.ret.delta.inc.has
       /\ Has(out.ret.delta.inc.m, Key)
       /\ out.ret.delta.inc.m[Key] = 1
       /\ ~Has(out.ret.where, Key)

\* C1 amended: for an empty dirty list, $__delta returns the no-op result
\* for every version state but WHERE|INC, so also for INC alone; for
\* WHERE|INC (version key selected) it returns the pair with
\* update.$inc[versionKey] = 1 and where[versionKey] the current version.
C1_VersionOnlyIncrement ==
  (out.kind = "delta" /\ dirty = <<>>)
    => /\ (version # VERSION_ALL) => out.ret.kind = "undefined"
       /\ (version = VERSION_ALL) => out.ret.kind = "pair"
       /\ (version = VERSION_ALL /\ versionSelected)
            => /\ out.ret.delta.inc = [has |-> TRUE, m |-> [k \in {Key} |-> 1]]
               /\ out.ret.where = [k \in {Key} |-> versionValue]

C1_Witness ==
  /\ out.kind = "delta" /\ dirty = <<>> /\ versionSelected
  /\ version = VERSION_INC
  /\ out.ret.kind = "undefined"

RECURSIVE FlaggedFrom(_, _)
\* the flagged path of every flagged dirty record from dirty[d] on, in order
FlaggedFrom(doc, d) ==
  IF d > Len(doc.dirty) THEN <<>>
  ELSE LET m == checkDivergentArray(doc, doc.dirty[d].path, doc.dirty[d].value)
       IN (IF m.flag THEN <<m.path>> ELSE <<>>) \o FlaggedFrom(doc, d + 1)

\* C2: whenever a dirty record is flagged by checkDivergentArray, $__delta
\* returns a DivergentArrayError carrying every flagged path in dirty order,
\* whatever the other dirty records and the version state are.
C2_DivergenceAborts ==
  (out.kind = "delta" /\ FlaggedFrom(Doc, 1) # <<>>)
    => /\ out.ret.kind = "DivergentArrayError"
       /\ out.ret.divergent = FlaggedFrom(Doc, 1)

\* C5: after increment() the version state is WHERE|INC whatever it was, and
\* with the version key selected the next $__delta returns, also for an empty
\* dirty list, a pair with where[versionKey] the current version value and
\* update.$inc[versionKey] = 1.
C5_IncrementPinsVersion ==
  /\ out.kind = "increment" => version = VERSION_ALL
  /\ (out.kind = "delta" /\ out.after = "increment") => version = VERSION_ALL
  /\ (out.kind = "delta" /\ version = VERSION_ALL /\ versionSelected)
       => /\ dirty = <<>> => out.ret.kind = "pair"
          /\ out.ret.kind = "pair"
               => /\ Has(out.ret.where, Key)
                  /\ out.ret.where[Key] = versionValue
                  /\ out.ret.delta.inc.has
                  /\ Has(out.ret.delta.inc.m, Key)
                  /\ out.ret.delta.inc.m[Key] = 1

C5_Witness ==
  /\ out.kind = "delta" /\ out.after = "increment"
  /\ dirty = <<>> /\ versionSelected /\ versionValue > 0
  /\ out.ret.kind = "pair"
  /\ out.ret.where[Key] = versionValue

IsInsertCall ==
  out.kind = "version" /\ out.inWhere.sentinel /\ versionKey # NoVersionKey

\* C6 as stated: after $__version(true, update) on a schema with a version
\* key, update.$set[versionKey] is 0, the stored version is 0 and where is
\* not modified.
C6_Original ==
  IsInsertCall
    => /\ out.ret.delta.set.has
       /\ Has(out.ret.delta.set.m, Key)
       /\ out.ret.delta.set.m[Key] = 0
       /\ versionValue = 0
       /\ out.ret.where = out.inWhere

\* C6 amended: after $__version(true, update) on a schema with a version
\* key, update[versionKey] is 0 (a property of update itself, $set is left
\* as it was), the stored version is 0 and where is not modified, for every
\* version state.
C6_InsertPath ==
  IsInsertCall
    => /\ out.ret.delta = [out.inDelta EXCEPT !.top = Put(@, Key, 0)]
       /\ out.ret.delta.top[Key] = 0
       /\ versionValue = 0
       /\ out.ret.where = out.inWhere

C6_Witness ==
  /\ IsInsertCall
  /\ version = VERSION_ALL
  /\ out.before > 0
  /\ ~Has(out.inDelta.top, Key)
  /\ out.ret.delta.top[Key] = 0
  /\ ~out.ret.delta.set.has

IsIncCall ==
  /\ out.kind = "version" /\ ~out.inWhere.sentinel
  /\ versionSelected
  /\ version \in {VERSION_INC, VERSION_ALL}

PriorInc == IF out.inDelta.inc.has THEN out.inDelta.inc.m ELSE EmptyObj

\* C7 as stated: on the update path, version key selected and INC set,
\* update.$inc[versionKey] afterwards is its value before (0 if absent)
\* plus 1; the other keys of update.$inc are kept.
C7_Original ==
  IsIncCall
    => /\ out.ret.delta.inc.has
       /\ DOMAIN out.ret.delta.inc.m = DOMAIN PriorInc \cup {Key}
       /\ out.ret.delta.inc.m[Key]
            = (IF Has(PriorInc, Key) THEN PriorInc[Key] ELSE 0) + 1
       /\ \A k \in DOMAIN PriorInc \ {Key} : out.ret.delta.inc.m[k] = PriorInc[k]

\* C7 amended: on the update path, version key selected and INC set,
\* update.$inc[versionKey] afterwards is 1 whatever it was before (it is
\* assigned, not added to); the other keys of update.$inc are kept.
C7_IncAssigned ==
  IsIncCall
    => /\ out.ret.delta.inc.has
       /\ DOMAIN out.ret.delta.inc.m = DOMAIN PriorInc \cup {Key}
       /\ out.ret.delta.inc.m[Key] = 1
       /\ \A k \in DOMAIN PriorInc \ {Key} : out.ret.delta.inc.m[k] = PriorInc[k]

C7_Witness ==
  /\ IsIncCall
  /\ Has(PriorInc, Key) /\ PriorInc[Key] = 2
  /\ Has(PriorInc, "n")
  /\ out.ret.delta.inc.m[Key] = 1
  /\ out.ret.delta.inc.m["n"] = PriorInc["n"]

-----------------------------------------------------------------------------
(* Properties of checkDivergentArray *)

ElemMatchProjected(top) ==
  /\ selected.has
  /\ top \in DOMAIN selected.proj
  /\ selected.proj[top] = "elemMatch"

\* C3: when the first dotted segment T of the dirty path is $elemMatch
\* projected, checkDivergentArray returns T, whether or not the path is
\* populated and whatever the new value is.
C3_ElemMatchTrigger ==
  (out.kind = "check" /\ ElemMatchProjected(SplitFirst(out.path)))
    => out.ret = [flag |-> TRUE, path |-> SplitFirst(out.path)]

\* s has sub as a substring
Contains(s, sub) ==
  \E i \in 1..(Len(s) - Len(sub) + 1) : SubSeq(s, i, i + Len(sub) - 1) = sub

\* (a) of C4: the options kept some documents or the _id out of the result
LimitedPopulation(pop) ==
  \/ pop.match
  \/ pop.options.has /\ pop.options.hasLimit
  \/ pop.options.has /\ pop.options.hasSkip /\ pop.options.skip > 0
  \/ pop.select.kind = "object" /\ pop.select.id = "0"
  \/ pop.select.kind = "string" /\ Contains(pop.select.s, <<"-", "_", "i", "d">>)

\* C4: for a populated path whose top segment is not $elemMatch projected,
\* checkDivergentArray returns the path itself if and only if the populate
\* options limit the population, the new value is a MongooseArray and its
\* queued atomics are empty or include $set or $pop; otherwise undefined.
C4_PartialPopulationTrigger ==
  (/\ out.kind = "check"
   /\ populated[out.path].is
   /\ ~ElemMatchProjected(SplitFirst(out.path)))
    => IF /\ LimitedPopulation(populated[out.path])
          /\ out.array.kind = "MongooseArray"
          /\ \/ out.array.atomics = {}
             \/ out.array.atomics \cap {"$set", "$pop"} # {}
       THEN out.ret = [flag |-> TRUE, path |-> out.path]
       ELSE out.ret = NotFlagged

\* skip: 0 alone, with nothing queued on the array, is not flagged
C4_Witness ==
  /\ out.kind = "check"
  /\ populated[out.path].is
  /\ ~ElemMatchProjected(SplitFirst(out.path))
  /\ populated[out.path].options.hasSkip
  /\ populated[out.path].options.skip = 0
  /\ ~populated[out.path].options.hasLimit
  /\ ~populated[out.path].match
  /\ populated[out.path].select.kind = "absent"
  /\ out.array = [kind |-> "MongooseArray", atomics |-> {}]
  /\ out.ret = NotFlagged

-----------------------------------------------------------------------------
(* lib/model.js:609-669 *)

\* entries of an id structure
Null == [t |-> "null", v |-> 0]
Num(n) == [t |-> "num", v |-> n]      \* an id
DocE(d) == [t |-> "doc", v |-> d]     \* a fetched document
Arr(a) == [t |-> "arr", v |-> a]      \* the array heap[a]
Undef == [t |-> "undefined", v |-> 0]
Str(n) == [t |-> "string", v |-> n]   \* an id of type String
Buf(n) == [t |-> "buffer", v |-> n]   \* an id of type Buffer
Oid(n) == [t |-> "objectid", v |-> n] \* an id of type ObjectID

\* String(id)
StringOf(id) == IF id.t = "null" THEN "null" ELSE ToString(id.v)

\* lib/model.js:654: newOrder[i] = doc = resultDocs[sid] || null
FindOneMutKeepId(newOrder, i, id, docs) ==
  LET sid == StringOf(id) IN
  SetIndex(newOrder, i, IF Has(docs, sid) THEN DocE(docs[sid]) ELSE id)

FindOne(newOrder, i, id, docs) ==
  LET sid == StringOf(id) IN
  SetIndex(newOrder, i, IF Has(docs, sid) THEN DocE(docs[sid]) ELSE Null)

\* lib/model.js:642-651
FindMutDropMissing(newOrder, id, docs, order, sorting) ==
  LET sid == StringOf(id) IN
  IF Has(docs, sid)
  THEN IF sorting
       THEN IF Has(order, sid)
            THEN SetIndex(newOrder, order[sid], DocE(docs[sid]))
            ELSE newOrder
       ELSE Push(newOrder, DocE(docs[sid]))
  ELSE newOrder

FindMutIgnoreRank(newOrder, id, docs, order, sorting) ==
  LET sid == StringOf(id) IN
  IF Has(docs, sid) THEN Push(newOrder, DocE(docs[sid])) ELSE Push(newOrder, id)

Find(newOrder, id, docs, order, sorting) ==
  LET sid == StringOf(id) IN
  IF Has(docs, sid)
  THEN IF sorting
       THEN IF Has(order, sid)
            THEN SetIndex(newOrder, order[sid], DocE(docs[sid]))
            ELSE newOrder   \* newOrder[undefined] = doc sets no index
       ELSE Push(newOrder, DocE(docs[sid]))
  ELSE Push(newOrder, id)

RECURSIVE assignRawDocsToIdStructure(_, _, _, _, _, _)
RECURSIVE AssignLoop(_, _, _, _, _, _, _, _)

\* lib/model.js:618-656 from index i on; the result is the heap (nested
\* arrays are rebuilt on the way) and newOrder
AssignLoop(h, a, i, newOrder, docs, order, opts, recursed) ==
  LET sorting == opts.sort /\ h[a].len > 1 IN
  IF i >= h[a].len THEN [h |-> h, newOrder |-> newOrder]
  ELSE LET id == h[a].at[i] IN
    IF id.t = "arr"
    THEN AssignLoop(assignRawDocsToIdStructure(h, id.v, docs, order, opts, TRUE),
                    a, i + 1, Push(newOrder, id), docs, order, opts, recursed)
    ELSE IF id.t = "null" /\ ~sorting
    THEN AssignLoop(h, a, i + 1, Push(newOrder, id), docs, order, opts, recursed)
    ELSE IF recursed
    THEN AssignLoop(h, a, i + 1, Find(newOrder, id, docs, order, sorting),
                    docs, order, opts, recursed)
    ELSE AssignLoop(h, a, i + 1, FindOne(newOrder, i, id, docs),
                    docs, order, opts, recursed)

\* rawIds is heap[a]; lines 658-668 empty it and copy the set indices of
\* newOrder back into it
assignRawDocsToIdStructure(h, a, docs, order, opts, recursed) ==
  LET r == AssignLoop(h, a, 0, EmptyArr, docs, order, opts, recursed)
  IN [r.h EXCEPT ![a] = [len |-> r.newOrder.len, at |-> r.newOrder.at]]

-----------------------------------------------------------------------------
(* lib/model.js:527-587 *)

\* val[i]: an index that is not set reads as undefined
At(arr, i) == IF i \in DOMAIN arr.at THEN arr.at[i] ELSE Undef

isDocMutNoObjectId(doc) ==
  IF doc.t \in {"null", "undefined"} THEN FALSE
  ELSE IF doc.t = "string" THEN FALSE
  ELSE IF doc.t = "num" THEN FALSE
  ELSE IF doc.t = "buffer" THEN FALSE
  ELSE TRUE

isDoc(doc) ==
  IF doc.t \in {"null", "undefined"} THEN FALSE   \* null == doc
  ELSE IF doc.t = "string" THEN FALSE
  ELSE IF doc.t = "num" THEN FALSE
  ELSE IF doc.t = "buffer" THEN FALSE
  ELSE IF doc.t = "objectid" THEN FALSE
  ELSE TRUE

\* a document is cleared by setValue('_id', undefined), a lean object by
\* delete subdoc._id
maybeRemoveId(sd, subdoc, assignmentOpts) ==
  IF assignmentOpts.excludeId /\ subdoc.t = "doc"
  THEN [sd EXCEPT ![subdoc.v].id = IF ~sd[subdoc.v].lean THEN "undefined" ELSE "deleted"]
  ELSE sd

RECURSIVE ValueFilterLoop(_, _, _, _, _)
\* lib/model.js:531-536 from index i on; the result is ret and the documents
ValueFilterLoop(val, i, ret, sd, assignmentOpts) ==
  IF i >= val.len THEN [ret |-> ret, sd |-> sd]
  ELSE LET subdoc == At(val, i) IN
       IF ~isDoc(subdoc)
       THEN ValueFilterLoop(val, i + 1, ret, sd, assignmentOpts)
       ELSE ValueFilterLoop(val, i + 1, Push(ret, subdoc),
                            maybeRemoveId(sd, subdoc, assignmentOpts),
                            assignmentOpts)

\* the address of the next array that is created
NewAddr(h) == Cardinality(DOMAIN h)

\* the result is the returned value, the heap (ret is a new array) and the
\* documents
valueFilter(h, sd, val, assignmentOpts) ==
  IF val.t = "arr"
  THEN LET r == ValueFilterLoop(h[val.v], 0, EmptyArr, sd, assignmentOpts)
       IN [ret |-> Arr(NewAddr(h)),
           h |-> [a \in DOMAIN h \cup {NewAddr(h)} |->
                    IF a \in DOMAIN h THEN h[a] ELSE r.ret],
           sd |-> r.sd]
  ELSE IF isDoc(val)
  THEN [ret |-> val, h |-> h, sd |-> maybeRemoveId(sd, val, assignmentOpts)]
  ELSE [ret |-> Null, h |-> h, sd |-> sd]

RECURSIVE AssignValsLoop(_, _, _, _, _)
\* lib/model.js:502-506 from docs[i] on: the filtered rawIds[i] is written
AssignValsLoop(h, sd, i, w, assignmentOpts) ==
  IF i >= h[0].len THEN [h |-> h, sd |-> sd, written |-> w]
  ELSE LET r == valueFilter(h, sd, At(h[0], i), assignmentOpts)
       IN AssignValsLoop(r.h, r.sd, i + 1, Append(w, r.ret), assignmentOpts)

-----------------------------------------------------------------------------
(* Population: the fetched documents are assigned to the id structure *)

Ids == {1, 2}

Scalars == {Null} \cup { Num(n) : n \in Ids }

\* the document fetched for an id
DocNumber(n) == 10 + n

SeqsUpTo(S, n) == UNION { [1..k -> S] : k \in 0..n }

\* rawIds holds, per populated document, an id (single reference) or an
\* array of ids (array reference)
RootShapes ==
  { <<>>, <<"id">>, <<"ids">>, <<"id", "id">>, <<"id", "ids">>,
    <<"ids", "id">>, <<"ids", "ids">> }

\* the heaps of a shape: the k-th "ids" entry is the array at address k
HeapsOf(shape) ==
  LET n == Cardinality({ i \in 1..Len(shape) : shape[i] = "ids" })
      addr(i) == Cardinality({ j \in 1..i : shape[j] = "ids" })
  IN { [a \in 0..n |->
          IF a = 0
          THEN FromSeq([i \in 1..Len(shape) |->
                          IF shape[i] = "ids" THEN Arr(addr(i)) ELSE top[i]])
          ELSE FromSeq(kids[a])] :
        top \in [1..Len(shape) -> Scalars],
        kids \in [1..n -> SeqsUpTo(Scalars, MaxLen)] }

\* resultDocs and resultOrder are filled together, one entry per fetched
\* document; the rank is used only when sorting
ResultsSet ==
  UNION { { [docs |-> [k \in { ToString(n) : n \in F } |-> DocNumber(CHOOSE n \in F : ToString(n) = k)],
             order |-> o] : o \in [{ ToString(n) : n \in F } -> 0..MaxRank] } :
          F \in SUBSET Ids }

Docs == { DocNumber(n) : n \in Ids }

\* a query returns documents, or plain objects when it is lean; every
\* fetched document has its _id
SubdocsSet == { [d \in Docs |-> [lean |-> l, id |-> "set"]] : l \in BOOLEAN }

InitAssign ==
  /\ version = 0
  /\ versionKey = "__v"
  /\ versionSelected = TRUE
  /\ versionValue = 0
  /\ selected = NoSelected
  /\ populated = [p \in Paths |-> NoPop]
  /\ dirty = <<>>
  /\ out = [kind |-> "none"]
  /\ heap \in UNION { HeapsOf(shape) : shape \in RootShapes }
  /\ heap0 = heap
  /\ \E r \in ResultsSet : resultDocs = r.docs /\ resultOrder = r.order
  /\ options \in { [sort |-> b, excludeId |-> x] : b \in BOOLEAN, x \in BOOLEAN }
     \* lean or not is read only when the _id is removed
  /\ subdocs \in { sd \in SubdocsSet : options.excludeId \/ \A d \in Docs : ~sd[d].lean }
  /\ written = <<>>
  /\ pc = "fetched"
  /\ RegIdle

\* lib/model.js:488-507: the reassembly, then one write per document
assignVals ==
  LET h == assignRawDocsToIdStructure(heap, 0, resultDocs, resultOrder,
                                      options, FALSE)
      r == AssignValsLoop(h, subdocs, 0, <<>>, options)
  IN
  /\ pc = "fetched"
  /\ heap' = r.h
  /\ subdocs' = r.sd
  /\ written' = r.written
  /\ pc' = "assigned"
  /\ UNCHANGED <<heap0, resultDocs, resultOrder, options, out>>
  /\ UNCHANGED docVars
  /\ UNCHANGED regVars

NextAssign == assignVals

SpecAssign == InitAssign /\ [][NextAssign]_vars

-----------------------------------------------------------------------------
(* valueFilter on its own, and as assignVals calls it *)

\* what a value or an entry of an array value can be
FilterEntries ==
  { Null, Undef, Num(1), Str(1), Buf(1), Oid(1) } \cup { DocE(d) : d \in Docs }

\* the value is heap[0][0]: an entry, or the array heap[1]
ValueHeaps ==
  { [a \in {0} |-> FromSeq(<<e>>)] : e \in FilterEntries } \cup
  { [a \in {0, 1} |-> IF a = 0 THEN FromSeq(<<Arr(1)>>) ELSE FromSeq(q)] :
      q \in SeqsUpTo(FilterEntries, MaxLen) }

InitValue ==
  /\ version = 0
  /\ versionKey = "__v"
  /\ versionSelected = TRUE
  /\ versionValue = 0
  /\ selected = NoSelected
  /\ populated = [p \in Paths |-> NoPop]
  /\ dirty = <<>>
  /\ out = [kind |-> "none"]
  /\ heap \in ValueHeaps
  /\ heap0 = heap
  /\ resultDocs = EmptyObj
  /\ resultOrder = EmptyObj
  /\ options \in { [sort |-> FALSE, excludeId |-> x] : x \in BOOLEAN }
  /\ subdocs \in SubdocsSet
  /\ written = <<>>
  /\ pc = "value"
  /\ RegIdle

\* lib/model.js:527-547: valueFilter(val, assignmentOpts)
ValueFilter ==
  LET r == valueFilter(heap, subdocs, At(heap[0], 0), options) IN
  /\ pc = "value"
  /\ heap' = r.h
  /\ subdocs' = r.sd
  /\ written' = <<r.ret>>
  /\ pc' = "filtered"
  /\ UNCHANGED <<heap0, resultDocs, resultOrder, options, out>>
  /\ UNCHANGED docVars
  /\ UNCHANGED regVars

InitFilter == InitValue \/ InitAssign

NextFilter == ValueFilter \/ assignVals

SpecFilter == InitFilter /\ [][NextFilter]_vars

-----------------------------------------------------------------------------
(* Properties of assignRawDocsToIdStructure *)

Fetched(id) == Has(resultDocs, StringOf(id))

FetchedDoc(id) == DocE(resultDocs[StringOf(id)])

\* the indices of the array that are set
Indices(arr) == DOMAIN arr.at

\* the arrays of ids the top-level call recursed into (find context)
NestedAddrs == { heap0[0].at[i].v : i \in { j \in Indices(heap0[0]) : heap0[0].at[j].t = "arr" } }

\* C8: at top level, sort or not, every position that held a non-array
\* entry holds the fetched document of that id, or null when none was
\* fetched; no bare id remains and the length is the input's.
C8_FindOneReassembly ==
  pc = "assigned"
    => /\ heap[0].len = heap0[0].len
       /\ Indices(heap[0]) = 0..(heap0[0].len - 1)
       /\ \A i \in Indices(heap0[0]) :
            heap0[0].at[i].t # "arr"
              => /\ heap[0].at[i] = IF Fetched(heap0[0].at[i])
                                    THEN FetchedDoc(heap0[0].at[i]) ELSE Null
                 /\ heap[0].at[i].t # "num"

\* ids [1, 2] of which only 1 was fetched, sort requested
C8_Witness ==
  /\ pc = "assigned"
  /\ options.sort
  /\ heap0[0] = FromSeq(<<Num(1), Num(2)>>)
  /\ heap[0] = FromSeq(<<DocE(DocNumber(1)), Null>>)

\* what a position of a find sequence holds when nothing is reordered
Positional(id) ==
  IF id.t = "null" THEN Null
  ELSE IF Fetched(id) THEN FetchedDoc(id) ELSE id

\* C9: without a sort option every nested id sequence keeps its length and
\* holds at each index the fetched document, else the original id, and null
\* where the input was null; the outer array still holds the same inner
\* arrays.
C9_FindPositional ==
  (pc = "assigned" /\ ~options.sort)
    => /\ \A i \in Indices(heap0[0]) :
            heap0[0].at[i].t = "arr" => heap[0].at[i] = heap0[0].at[i]
       /\ \A a \in NestedAddrs :
            /\ heap[a].len = heap0[a].len
            /\ Indices(heap[a]) = Indices(heap0[a])
            /\ \A i \in Indices(heap0[a]) :
                 heap[a].at[i] = Positional(heap0[a].at[i])

\* [[1, 2], [2]] with only 1 fetched gives [[Doc1, 2], [2]]
C9_Witness ==
  /\ pc = "assigned" /\ ~options.sort
  /\ heap0[0] = FromSeq(<<Arr(1), Arr(2)>>)
  /\ heap0[1] = FromSeq(<<Num(1), Num(2)>>)
  /\ heap0[2] = FromSeq(<<Num(2)>>)
  /\ heap[0] = heap0[0]
  /\ heap[1] = FromSeq(<<DocE(DocNumber(1)), Num(2)>>)
  /\ heap[2] = FromSeq(<<Num(2)>>)

\* C10: in the find context, with or without sort and for every resultOrder,
\* each non-null id without a fetched document is still an entry of the
\* rebuilt sequence.
C10_MissingIdsKept ==
  pc = "assigned"
    => \A a \in NestedAddrs :
         \A i \in Indices(heap0[a]) :
           (heap0[a].at[i].t = "num" /\ ~Fetched(heap0[a].at[i]))
             => \E j \in Indices(heap[a]) : heap[a].at[j] = heap0[a].at[i]


\* the nested sequences that are reordered: sort requested, more than one entry
SortedAddrs == { a \in NestedAddrs : options.sort /\ heap0[a].len > 1 }

\* the positions of the input sequence that hold an id with a fetched document
FoundAt(a) == { i \in Indices(heap0[a]) : heap0[a].at[i].t = "num" /\ Fetched(heap0[a].at[i]) }

RankOf(id) == resultOrder[StringOf(id)]

\* C11 as stated: in a sorted find sequence every id with a fetched document
\* ends at the index that is its rank; when all ids are found and the ranks
\* are 0..n-1 the output is the documents in ascending rank.
C11_Original ==
  pc = "assigned"
    => \A a \in SortedAddrs :
         /\ \A i \in FoundAt(a) :
              /\ RankOf(heap0[a].at[i]) \in Indices(heap[a])
              /\ heap[a].at[RankOf(heap0[a].at[i])] = FetchedDoc(heap0[a].at[i])
         /\ (/\ FoundAt(a) = Indices(heap0[a])
             /\ { RankOf(heap0[a].at[i]) : i \in FoundAt(a) } = 0..(heap0[a].len - 1))
              => heap[a].len = heap0[a].len

\* the last position of the input whose found id has the rank of position i
LastOfRank(a, i) ==
  CHOOSE j \in FoundAt(a) :
    /\ RankOf(heap0[a].at[j]) = RankOf(heap0[a].at[i])
    /\ \A k \in FoundAt(a) :
         RankOf(heap0[a].at[k]) = RankOf(heap0[a].at[i]) => k <= j

\* C11 amended: in a sorted find sequence the index that is the rank of a
\* found id holds the document of the last processed found id of that rank
\* (the id's own document when no different found id shares its rank); when
\* all ids are found and the ranks are 0..n-1 the output is the documents in
\* ascending rank.
C11_SortByRank ==
  pc = "assigned"
    => \A a \in SortedAddrs :
         /\ \A i \in FoundAt(a) :
              /\ RankOf(heap0[a].at[i]) \in Indices(heap[a])
              /\ heap[a].at[RankOf(heap0[a].at[i])]
                   = FetchedDoc(heap0[a].at[LastOfRank(a, i)])
         /\ (/\ FoundAt(a) = Indices(heap0[a])
             /\ { RankOf(heap0[a].at[i]) : i \in FoundAt(a) } = 0..(heap0[a].len - 1))
              => /\ heap[a].len = heap0[a].len
                 /\ Indices(heap[a]) = 0..(heap0[a].len - 1)
                 /\ \A r \in Indices(heap[a]) :
                      /\ heap[a].at[r].t = "doc"
                      /\ \E i \in FoundAt(a) :
                           /\ RankOf(heap0[a].at[i]) = r
                           /\ heap[a].at[r] = FetchedDoc(heap0[a].at[i])

\* ids [2, 1] with resultOrder {1: 0, 2: 1} give [Doc1, Doc2]
C11_Witness ==
  /\ pc = "assigned" /\ options.sort
  /\ heap0[0] = FromSeq(<<Arr(1)>>)
  /\ heap0[1] = FromSeq(<<Num(2), Num(1)>>)
  /\ DOMAIN resultDocs = {"1", "2"}
  /\ resultOrder = [s \in {"1", "2"} |-> IF s = "1" THEN 0 ELSE 1]
  /\ heap[1] = FromSeq(<<DocE(DocNumber(1)), DocE(DocNumber(2))>>)


\* every sequence of the id structure: the top level and the nested ones
AllAddrs == DOMAIN heap0

\* C12: a null entry of the id structure is kept verbatim at its position
\* when no sort was requested, and when a sort was requested and the sequence
\* has more than one entry no null entry remains in the rebuilt sequence.
C12_NullHandling ==
  pc = "assigned"
    => \A a \in AllAddrs :
         /\ ~options.sort
              => \A i \in Indices(heap0[a]) :
                   heap0[a].at[i] = Null
                     => i \in Indices(heap[a]) /\ heap[a].at[i] = Null
         /\ (options.sort /\ heap0[a].len > 1)
              => \A i \in Indices(heap[a]) : heap[a].at[i] # Null


\* C13: for every document with an empty dirty-record list and version state
\* 0, $__delta returns the no-op result (undefined), not a [where, update]
\* pair.
C13_NoOpDelta ==
  (out.kind = "delta" /\ dirty = <<>> /\ version = 0)
    => out.ret = [kind |-> "undefined"]

C13_Witness ==
  /\ out.kind = "delta" /\ dirty = <<>> /\ version = 0
  /\ out.ret.kind = "undefined"


\* C14: after the reassembly every rebuilt sequence, top level and nested, is
\* dense: every index below its length holds an entry, whatever the ranks of
\* resultOrder; on duplicate ranks the later processed document occupies the
\* index.
C14_DenseResult ==
  pc = "assigned"
    => \A a \in AllAddrs :
         /\ Indices(heap[a]) = 0..(heap[a].len - 1)
         /\ a \in SortedAddrs
              => \A i \in FoundAt(a) :
                   heap[a].at[RankOf(heap0[a].at[i])]
                     = FetchedDoc(heap0[a].at[LastOfRank(a, i)])


\* C15: on the update path (where is not the insert sentinel), when the
\* version key was not selected in the load projection, $__version leaves
\* where and update exactly as they were, for every version state, and does
\* not change the document.
C15_UnselectedKey ==
  (out.kind = "version" /\ ~out.inWhere.sentinel /\ ~versionSelected)
    => /\ out.ret.where = out.inWhere
       /\ out.ret.delta = out.inDelta
       /\ versionValue = out.before

C15_Witness ==
  /\ out.kind = "version" /\ ~out.inWhere.sentinel /\ ~versionSelected
  /\ version = VERSION_ALL
  /\ ~Has(out.inWhere.o, Key)
  /\ ~out.inDelta.inc.has
  /\ out.ret.where = out.inWhere
  /\ out.ret.delta = out.inDelta


\* the kinds of entry the claim calls a document: everything but
\* null/undefined, string, number, Buffer and ObjectID
IsDocument(e) == e.t \notin {"null", "undefined", "string", "num", "buffer", "objectid"}

\* the entries of an array value as a loop over 0..length-1 reads them
EntriesOf(arr) == [k \in 1..arr.len |-> At(arr, k - 1)]

\* the document d is in the value written for docs[i]
SurvivesIn(d, ret) ==
  \/ ret = DocE(d)
  \/ ret.t = "arr" /\ \E k \in Indices(heap[ret.v]) : heap[ret.v].at[k] = DocE(d)

IdKinds == {"num", "string", "buffer", "objectid"}

\* C16: for an array value valueFilter returns a new array holding exactly
\* the entries that are documents, in their original order; for a non-array
\* value it returns the value when it is a document and null otherwise; with
\* excludeId the _id of every surviving document is cleared, otherwise no
\* document is modified; the values assignVals writes contain no bare id.
C16_ValueFilter ==
  pc \in {"filtered", "assigned"}
    => /\ Len(written) = heap[0].len
       /\ \A i \in 1..Len(written) :
            LET val == heap[0].at[i - 1]
                ret == written[i]
            IN /\ val.t = "arr"
                    => /\ ret.t = "arr"
                       /\ ret.v \in DOMAIN heap \ DOMAIN heap0
                       /\ \A j \in 1..Len(written) : written[j] = ret => j = i
                       /\ heap[ret.v] = FromSeq(SelectSeq(EntriesOf(heap[val.v]), IsDocument))
               /\ val.t # "arr"
                    => ret = IF IsDocument(val) THEN val ELSE Null
               /\ ret.t \notin IdKinds
               /\ ret.t = "arr"
                    => \A k \in Indices(heap[ret.v]) : heap[ret.v].at[k].t \notin IdKinds
       /\ pc = "filtered" => \A a \in DOMAIN heap0 : heap[a] = heap0[a]
       /\ \A d \in Docs :
            subdocs[d].id =
              IF options.excludeId /\ \E i \in 1..Len(written) : SurvivesIn(d, written[i])
              THEN (IF subdocs[d].lean THEN "deleted" ELSE "undefined")
              ELSE "set"

\* [ObjectID, Doc11, undefined] with excludeId gives the new array [Doc11];
\* Doc11 has lost its _id, Doc12 has not
C16_Witness ==
  /\ pc = "filtered" /\ options.excludeId
  /\ DOMAIN heap0 = {0, 1}
  /\ heap0[1] = FromSeq(<<Oid(1), DocE(DocNumber(1))>>)
  /\ written[1].t = "arr"
  /\ heap[written[1].v] = FromSeq(<<DocE(DocNumber(1))>>)
  /\ subdocs[DocNumber(1)].id = "undefined"
  /\ subdocs[DocNumber(2)].id = "set"


-----------------------------------------------------------------------------
(* lib/index.js:139-229: the model registry *)

\* a Schema object: passed by the caller, made from a plain object by the
\* call, or a default of SchemaDefaults
SchemaOf(src, n) == [src |-> src, n |-> n]

\* require('./schemadefault'): the default schemas, by collection name
SchemaDefaults == [n \in {"system.profile"} |-> SchemaOf("default", 1)]

\* the second argument: nothing, a collection name, a plain object or a
\* Schema
SchemaArgs ==
  { [k |-> "absent", n |-> 0], [k |-> "string", n |-> 0], [k |-> "object", n |-> 0] }
    \cup { [k |-> "Schema", n |-> i] : i \in {1, 2} }

\* the arguments of a call: schema, collection (given or not) and the
\* internal option cache of connection.model()
ArgsSet ==
  { [schema |-> x, collection |-> c, cache |-> o] :
      x \in SchemaArgs, c \in BOOLEAN, o \in {"default", "false"} }

Thrown(kind, ms, made) ==
  [kind |-> kind, model |-> NoModel, models |-> models, modelSchemas |-> ms,
   made |-> made]

Returned(model, m, ms, made) ==
  [kind |-> "returned", model |-> model, models |-> m, modelSchemas |-> ms,
   made |-> made]

\* lines 178-229, with the schema looked up and modelSchemas as lines
\* 165-176 left them
Mongoose__modelCompileMutNoOverwriteCheck(name, a, schema, collection, ms, made) ==
  IF models[name] # NoModel /\ a.cache # "false"
  THEN IF collection
       THEN Returned([id |-> created + made + 1, schema |-> models[name].schema],
                     models, ms, made + 1)
       ELSE Returned(models[name], models, ms, made)
  ELSE LET s == IF schema = NoSchema THEN ms[name] ELSE schema IN
       IF s = NoSchema
       THEN Thrown("MissingSchemaError", ms, made)
       ELSE LET model == [id |-> created + made + 1, schema |-> s] IN
            IF a.cache = "false"
            THEN Returned(model, models, ms, made + 1)
            ELSE Returned(model, [models EXCEPT ![name] = model], ms, made + 1)

Mongoose__modelCompile(name, a, schema, collection, ms, made) ==
  IF models[name] # NoModel /\ a.cache # "false"
  THEN IF schema # NoSchema /\ schema # models[name].schema
       THEN Thrown("OverwriteModelError", ms, made)
       ELSE IF collection
       THEN \* model.__subclass: a new model that is not cached
            Returned([id |-> created + made + 1, schema |-> models[name].schema],
                     models, ms, made + 1)
       ELSE Returned(models[name], models, ms, made)
  ELSE LET s == IF schema = NoSchema THEN ms[name] ELSE schema IN
       IF s = NoSchema
       THEN Thrown("MissingSchemaError", ms, made)
       ELSE LET model == [id |-> created + made + 1, schema |-> s] IN
            IF a.cache = "false"
            THEN Returned(model, models, ms, made + 1)
            ELSE Returned(model, [models EXCEPT ![name] = model], ms, made + 1)

\* Mongoose.prototype.model(name, schema, collection, skipInit): the result
\* is what is returned or thrown, the registry after the call and the
\* number of objects the call created
Mongoose__model(name, a) ==
  LET collection == IF a.schema.k = "string" THEN TRUE ELSE a.collection
      made == IF a.schema.k = "object" THEN 1 ELSE 0
      given == IF a.schema.k = "Schema" THEN SchemaOf("instance", a.schema.n)
               ELSE IF a.schema.k = "object" THEN SchemaOf("object", created + 1)
               ELSE NoSchema
  IN IF modelSchemas[name] = NoSchema
     THEN LET schema == IF given = NoSchema /\ name \in DOMAIN SchemaDefaults
                        THEN SchemaDefaults[name] ELSE given
          IN IF schema # NoSchema
             THEN Mongoose__modelCompile(name, a, schema, collection,
                                         [modelSchemas EXCEPT ![name] = schema], made)
             ELSE Thrown("MissingSchemaError", modelSchemas, made)
     ELSE Mongoose__modelCompile(name, a, given, collection, modelSchemas, made)

InitRegistry ==
  /\ version = 0
  /\ versionKey = "__v"
  /\ versionSelected = TRUE
  /\ versionValue = 0
  /\ selected = NoSelected
  /\ populated = [p \in Paths |-> NoPop]
  /\ dirty = <<>>
  /\ out = [kind |-> "none"]
  /\ PopIdle
  /\ RegIdle

ModelCall(name, a) ==
  LET r == Mongoose__model(name, a) IN
  /\ created + r.made <= MaxCreated
  /\ models' = r.models
  /\ modelSchemas' = r.modelSchemas
  /\ created' = created + r.made
  /\ out' = [kind |-> "model", name |-> name, args |-> a,
             before |-> [models |-> models, modelSchemas |-> modelSchemas],
             ret |-> [kind |-> r.kind, model |-> r.model]]
  /\ UNCHANGED docVars
  /\ UNCHANGED popVars

NextRegistry == \E name \in Names, a \in ArgsSet : ModelCall(name, a)

SpecRegistry == InitRegistry /\ [][NextRegistry]_vars

-----------------------------------------------------------------------------
(* Properties of the model registry *)

IsModelCall == out.kind = "model"

\* the call did not change the registry
RegistryUnchanged ==
  models = out.before.models /\ modelSchemas = out.before.modelSchemas

\* what was registered before the call is still registered after it
RegistryKept ==
  \A n \in Names :
    /\ out.before.models[n] # NoModel => models[n] = out.before.models[n]
    /\ out.before.modelSchemas[n] # NoSchema
         => modelSchemas[n] = out.before.modelSchemas[n]

\* the call passed a Schema instance other than the schema of the model
\* cached under the name
DifferentSchemaCall ==
  /\ IsModelCall
  /\ out.before.models[out.name] # NoModel
  /\ out.args.schema.k = "Schema"
  /\ SchemaOf("instance", out.args.schema.n) # out.before.models[out.name].schema

\* the call passed no schema for a name that has no stored schema
UnknownNameCall ==
  /\ IsModelCall
  /\ out.before.modelSchemas[out.name] = NoSchema
  /\ out.args.schema.k \in {"absent", "string"}

\* C17 as stated: a registered model and the first schema of a name are
\* never replaced; a call with the name of a cached model and a different
\* Schema instance raises OverwriteModelError, a call for an unknown name
\* without a schema raises MissingSchemaError, and both leave models and
\* modelSchemas unchanged.
C17_Original ==
  IsModelCall
    => /\ RegistryKept
       /\ DifferentSchemaCall
            => out.ret.kind = "OverwriteModelError" /\ RegistryUnchanged
       /\ UnknownNameCall
            => out.ret.kind = "MissingSchemaError" /\ RegistryUnchanged

\* C17 amended: a registered model and the first schema of a name are never
\* replaced; a call with the name of a cached model and a different Schema
\* instance raises OverwriteModelError unless it carries the option
\* cache: false, and then it returns a new model of the passed schema that is
\* not cached; a call without a schema for a name that has no stored schema
\* and no default in SchemaDefaults raises MissingSchemaError; every call
\* that raises leaves models and modelSchemas unchanged.
C17_RegistryKept ==
  IsModelCall
    => /\ RegistryKept
       /\ (DifferentSchemaCall /\ out.args.cache # "false")
            => out.ret.kind = "OverwriteModelError"
       /\ (DifferentSchemaCall /\ out.args.cache = "false")
            => /\ out.ret.kind = "returned"
               /\ out.ret.model.schema = SchemaOf("instance", out.args.schema.n)
               /\ \A n \in Names : models[n] # out.ret.model
               /\ RegistryUnchanged
       /\ (UnknownNameCall /\ out.name \notin DOMAIN SchemaDefaults)
            => out.ret.kind = "MissingSchemaError"
       /\ (UnknownNameCall /\ out.name \in DOMAIN SchemaDefaults)
            => /\ out.ret.kind = "returned"
               /\ modelSchemas[out.name] = SchemaDefaults[out.name]
       /\ out.ret.kind \in {"OverwriteModelError", "MissingSchemaError"}
            => RegistryUnchanged

\* Actor is cached with one schema and then asked for with another
C17_Witness ==
  /\ DifferentSchemaCall /\ out.args.cache # "false"
  /\ out.name = "Actor"
  /\ out.ret.kind = "OverwriteModelError"
  /\ models["Actor"] # NoModel
  /\ models["Actor"] = out.before.models["Actor"]
  /\ modelSchemas["Actor"] = models["Actor"].schema

=============================================================================
